---- MODULE Spec2Model ----
(***************************************************************************)
(* Tier-4 write-behind batching queue (apps/tier-4-1m/src/writequeue.ts).  *)
(* Request handlers enqueue write jobs; a 50 ms interval timer calls       *)
(* flush(), which drains up to BATCH_SIZE jobs, sends the creates as one   *)
(* multi-row INSERT to shard 0 and settles the jobs' promises.             *)
(*                                                                         *)
(* JavaScript runs each handler to its next await without interleaving,    *)
(* so one action is one such run: enqueue, the synchronous head of flush   *)
(* (up to the awaited query, or to the end when there is no create), the   *)
(* storage backend executing the statement, and the continuation of flush  *)
(* after the await.                                                        *)
(*                                                                         *)
(* The circuit breakers of the same tier (cb.ts: dbCircuit, redisCircuit)  *)
(* are modelled next to the queue.  execute() is two runs: from the call   *)
(* to the awaited guarded function, and from the function's outcome to     *)
(* the return, so several calls can be in flight on one breaker.           *)
(*                                                                         *)
(* The routes on /api/users/:id (routes.ts, helper.ts) read through the    *)
(* cache and write to the store for one user id; a handler is one run per  *)
(* awaited call.                                                           *)
(***************************************************************************)
EXTENDS Integers, Sequences, FiniteSets, Bags, TLC

\* ---- program constants ------------------------------------------------
BATCH_SIZE == 100

\* ---- bounds of the model ----------------------------------------------
MaxJobs == 3
MaxBulk == 250
MaxInFlight == 3
MaxTime == 60001
MaxDrift == 1

\* the dependencies are down until this time at the latest (ms)
DownUntil == 10001

\* requests on /api/users/:id: in all, and being handled at one time
MaxReqs == 5
MaxActive == 2

\* ---- inputs -----------------------------------------------------------
JobTypes == {"create", "update", "delete"}

Payloads ==
  { [name |-> "ann", email |-> "ann@x"],
    [name |-> "bob", email |-> "bob@x"] }

BulkPayload == [name |-> "ann", email |-> "ann@x"]

VARIABLES
  queue,        \* WriteQueue.queue: pending jobs, oldest first
  flushing,     \* WriteQueue.flushing
  cycles,       \* one record per flush() invocation that passed the guard:
                \* its local batch and how far the invocation has got
  queries,      \* the calls DB_SHARDS[0].query has received, in order,
                \* each with its arguments and the backend's answer
  settled,      \* settled[id]: state of the promise returned by enqueue
  settleCalls,  \* settleCalls[id]: calls of resolve/reject made for job id
  nextId,       \* users.id sequence of shard 0
  lastOp,       \* the handler that ran last
  cb,           \* cb[name]: the fields of CircuitBreaker instance name
  now,          \* Date.now(), in ms since the process started
  inflight,     \* inflight[<<name, fb>>]: execute calls on breaker name
                \* (fb: with a fallback) that await their guarded function
  openedAt,     \* openedAt[name]: when name last went from another state
                \* to OPEN
  streak,       \* streak[name]: failures of the guarded function of name
                \* since its last success
  cbEvent,      \* what the last breaker step did and returned
  store,        \* the users row of the id: its version, or Absent
  cache,        \* the value of the key u:id in redis, or Null
  reqs,         \* the requests on /api/users/:id being handled (a bag):
                \* each with its route, the call it awaits and the row
                \* it holds
  arrivals,     \* requests on /api/users/:id received so far
  overwritten,  \* the versions that PUT and DELETE requests have replaced,
                \* of the requests whose handler and cache delete are over
  resp          \* the response sent last

qVars == <<queue, flushing, cycles, queries, settled, settleCalls, nextId, lastOp>>

cbVars == <<cb, now, inflight, openedAt, streak, cbEvent>>

caVars == <<store, cache, reqs, arrivals, overwritten, resp>>

vars == <<queue, flushing, cycles, queries, settled, settleCalls, nextId, lastOp,
          cb, now, inflight, openedAt, streak, cbEvent,
          store, cache, reqs, arrivals, overwritten, resp>>

\* redis has no value for the key; the users table has no row for the id
Null == -1

Absent == -2


\* ---- promises ---------------------------------------------------------
Pending == [kind |-> "pending"]
Fulfilled(row) == [kind |-> "ok", row |-> row]
Rejected(err) == [kind |-> "err", err |-> err]
Undefined == [id |-> 0, name |-> "undefined", email |-> "undefined"]

\* A promise keeps its first settlement; later resolve/reject calls are
\* ignored by the runtime.
Settle(cur, val) == IF cur = Pending THEN val ELSE cur

\* ---- Array helpers ----------------------------------------------------
Min(a, b) == IF a < b THEN a ELSE b

\* Fault: slice(0, n) in place of splice, the array is left as it was.
SpliceKeeps(q, n) ==
  [removed |-> SubSeq(q, 1, Min(n, Len(q))),
   rest    |-> q]

\* Fault: the array is emptied after the batch was taken.
SpliceClears(q, n) ==
  [removed |-> SubSeq(q, 1, Min(n, Len(q))),
   rest    |-> <<>>]

\* Fault: splice(0, n - 1).
SpliceOneLess(q, n) ==
  [removed |-> SubSeq(q, 1, Min(n - 1, Len(q))),
   rest    |-> SubSeq(q, Min(n - 1, Len(q)) + 1, Len(q))]

\* Array.prototype.splice(0, n): the removed head, and what stays in the
\* array
Splice(q, n) ==
  [removed |-> SubSeq(q, 1, Min(n, Len(q))),
   rest    |-> SubSeq(q, Min(n, Len(q)) + 1, Len(q))]

IsCreate(j) == j.type = "create"

\* Fault: the filter is dropped, the whole batch goes into the INSERT.
FilterNothing(batch) == batch

\* batch.filter((j) => j.type === "create")
FilterCreates(batch) == SelectSeq(batch, IsCreate)

\* Fault: the row array is read as if it were 1-based.
RowAtOneBased(rows, i) ==
  IF i >= 1 /\ i <= Len(rows) THEN rows[i] ELSE Undefined

\* rows[i] of a JavaScript array (0-based i); undefined past the end.
RowAt(rows, i) == IF i + 1 <= Len(rows) THEN rows[i + 1] ELSE Undefined

\* ---- the multi-row INSERT ----------------------------------------------
\* values.push(job.payload.name, job.payload.email) for each create
RECURSIVE BuildValues(_)
BuildValues(creates) ==
  IF creates = <<>> THEN <<>>
  ELSE <<Head(creates).payload.name, Head(creates).payload.email>>
         \o BuildValues(Tail(creates))

\* `($${base + 1}, $${base + 2})` with base = i * 2 (0-based i): the two
\* parameter numbers of tuple i
Placeholder(i) == <<(i * 2) + 1, (i * 2) + 2>>

BuildPlaceholders(creates) == [k \in 1..Len(creates) |-> Placeholder(k - 1)]

\* INSERT INTO users (name, email) VALUES ... RETURNING id, name, email:
\* one row per VALUES tuple, in tuple order, ids from the sequence
InsertReturning(placeholders, values, firstId) ==
  [k \in 1..Len(placeholders) |->
     [id    |-> firstId + k - 1,
      name  |-> values[placeholders[k][1]],
      email |-> values[placeholders[k][2]]]]

\* ---- settling the promises of a batch ----------------------------------
\* 0-based position of job id in a job array, -1 when absent
IndexOfJob(jobs, id) ==
  IF \E k \in 1..Len(jobs) : jobs[k].id = id
  THEN (CHOOSE k \in 1..Len(jobs) : jobs[k].id = id) - 1
  ELSE -1

\* Fault: the loop over the creates starts at index 1.
ResolveCreatesSkipFirst(st, creates, rows) ==
  [id \in DOMAIN st |->
     IF IndexOfJob(creates, id) >= 1
     THEN Settle(st[id], Fulfilled(RowAt(rows, IndexOfJob(creates, id))))
     ELSE st[id]]

\* creates.forEach((job, i) => job.resolve(rows[i]))
ResolveCreates(st, creates, rows) ==
  [id \in DOMAIN st |->
     IF IndexOfJob(creates, id) >= 0
     THEN Settle(st[id], Fulfilled(RowAt(rows, IndexOfJob(creates, id))))
     ELSE st[id]]

\* Fault: only the creates of the batch are rejected.
RejectCreatesOnly(st, batch, err) ==
  [id \in DOMAIN st |->
     IF IndexOfJob(SelectSeq(batch, IsCreate), id) >= 0
     THEN Settle(st[id], Rejected(err))
     ELSE st[id]]

\* batch.forEach((job) => job.reject(err))
RejectBatch(st, batch, err) ==
  [id \in DOMAIN st |->
     IF IndexOfJob(batch, id) >= 0 THEN Settle(st[id], Rejected(err))
     ELSE st[id]]

\* the resolve/reject calls made on the jobs of an array
CountCalls(calls, jobs) ==
  [id \in DOMAIN calls |->
     IF IndexOfJob(jobs, id) >= 0 THEN calls[id] + 1 ELSE calls[id]]

\* ---- flush cycles -------------------------------------------------------
\* Fault: the guard tests the queue length only.
FlushSkipsEmptyOnly(f, q) == Len(q) = 0

\* if (this.flushing || this.queue.length === 0) return;
FlushSkips(f, q) == f \/ Len(q) = 0

\* Fault: no finally block, the flag keeps its value.
FlushFinallyKeeps(f) == f

\* finally { this.flushing = false; }
FlushFinally(f) == FALSE

\* the frame of a flush() invocation that passed the guard
NewCycle(batch, creates) ==
  [batch  |-> batch,
   status |-> IF Len(creates) > 0 THEN "awaiting" ELSE "nocall"]

\* DB_SHARDS[0].query(text, values) issued by flush cycle c
NewQuery(c, creates) ==
  [cycle        |-> c,
   placeholders |-> BuildPlaceholders(creates),
   values       |-> BuildValues(creates),
   status       |-> "pending",
   rows         |-> <<>>,
   err          |-> 0]

Init ==
  /\ queue = <<>>
  /\ flushing = FALSE
  /\ cycles = <<>>
  /\ queries = <<>>
  /\ settled = <<>>
  /\ settleCalls = <<>>
  /\ nextId = 1
  /\ lastOp = "init"
  /\ cb = [name \in {"postgres", "redis"} |->
             [state |-> "CLOSED", failures |-> 0, successCount |-> 0,
              lastFailureTime |-> 0]]
  /\ now = 0
  /\ inflight = [c \in {"postgres", "redis"} \X BOOLEAN |-> 0]
  /\ openedAt = [name \in {"postgres", "redis"} |-> 0]
  /\ streak = [name \in {"postgres", "redis"} |-> 0]
  /\ cbEvent = [op |-> "init"]
  /\ store = 0
  /\ cache = Null
  /\ reqs = EmptyBag
  /\ arrivals = 0
  /\ overwritten = {}
  /\ resp = [kind |-> "none"]

\* Fault: unshift in place of push, the new job goes to the head.
EnqueueUnshift(type, payload) ==
  /\ queue' = <<[id |-> Len(settled) + 1, type |-> type,
                 payload |-> payload]>> \o queue
  /\ settled' = Append(settled, Pending)
  /\ settleCalls' = Append(settleCalls, 0)
  /\ lastOp' = "enqueue"
  /\ UNCHANGED <<flushing, cycles, queries, nextId>>
  /\ UNCHANGED <<cbVars, caVars>>

\* Fault: a job pushed while a flush is in progress is lost.
EnqueueDropsInFlush(type, payload) ==
  /\ queue' = IF flushing THEN queue
              ELSE Append(queue, [id |-> Len(settled) + 1, type |-> type,
                                  payload |-> payload])
  /\ settled' = Append(settled, Pending)
  /\ settleCalls' = Append(settleCalls, 0)
  /\ lastOp' = "enqueue"
  /\ UNCHANGED <<flushing, cycles, queries, nextId>>
  /\ UNCHANGED <<cbVars, caVars>>

\* WriteQueue.enqueue: a new promise whose executor pushes the job
Enqueue(type, payload) ==
  /\ queue' = Append(queue, [id |-> Len(settled) + 1, type |-> type,
                              payload |-> payload])
  /\ settled' = Append(settled, Pending)
  /\ settleCalls' = Append(settleCalls, 0)
  /\ lastOp' = "enqueue"
  /\ UNCHANGED <<flushing, cycles, queries, nextId>>
  /\ UNCHANGED <<cbVars, caVars>>

\* POST /api/users and any other caller of the queue
EnqueueJob ==
  /\ Len(settled) < MaxJobs
  /\ \E type \in JobTypes, payload \in Payloads : Enqueue(type, payload)

\* WriteQueue.flush, from the timer tick to the awaited query (or to the
\* end of the function when the batch holds no create)
Flush ==
  /\ UNCHANGED <<cbVars, caVars>>
  /\ IF FlushSkips(flushing, queue)
     THEN /\ lastOp' = "flushSkip"
          /\ UNCHANGED <<queue, flushing, cycles, queries, settled,
                         settleCalls, nextId>>
     ELSE LET batch == Splice(queue, BATCH_SIZE).removed
              creates == FilterCreates(batch)
              c == Len(cycles) + 1
          IN /\ queue' = Splice(queue, BATCH_SIZE).rest
             /\ cycles' = Append(cycles, NewCycle(batch, creates))
             /\ IF Len(creates) > 0
                THEN /\ queries' = Append(queries, NewQuery(c, creates))
                     /\ flushing' = TRUE
                ELSE /\ queries' = queries
                     /\ flushing' = FlushFinally(TRUE)
             /\ lastOp' = "flushDrain"
             /\ UNCHANGED <<settled, settleCalls, nextId>>

\* shard 0 executes the INSERT of query q
DbSucceed(q) ==
  /\ queries[q].status = "pending"
  /\ LET rows == InsertReturning(queries[q].placeholders, queries[q].values,
                                 nextId)
     IN /\ queries' = [queries EXCEPT ![q].status = "rows", ![q].rows = rows]
        /\ nextId' = nextId + Len(rows)
  /\ lastOp' = "dbRows"
  /\ UNCHANGED <<queue, flushing, cycles, settled, settleCalls>>
  /\ UNCHANGED <<cbVars, caVars>>

\* the INSERT of query q fails (constraint violation, connection loss);
\* the error object thrown for query q is identified by q
DbFail(q) ==
  /\ queries[q].status = "pending"
  /\ queries' = [queries EXCEPT ![q].status = "error", ![q].err = q]
  /\ lastOp' = "dbError"
  /\ UNCHANGED <<queue, flushing, cycles, settled, settleCalls, nextId>>
  /\ UNCHANGED <<cbVars, caVars>>

\* WriteQueue.flush after the await on query q: resolve the creates, or
\* catch and reject the batch; then finally
FlushResume(q) ==
  /\ queries[q].status \in {"rows", "error"}
  /\ cycles[queries[q].cycle].status = "awaiting"
  /\ LET c == queries[q].cycle
         batch == cycles[c].batch
         creates == FilterCreates(batch)
     IN IF queries[q].status = "rows"
        THEN /\ settled' = ResolveCreates(settled, creates, queries[q].rows)
             /\ settleCalls' = CountCalls(settleCalls, creates)
             /\ cycles' = [cycles EXCEPT ![c].status = "resolved"]
        ELSE /\ settled' = RejectBatch(settled, batch, queries[q].err)
             /\ settleCalls' = CountCalls(settleCalls, batch)
             /\ cycles' = [cycles EXCEPT ![c].status = "rejected"]
  /\ flushing' = FlushFinally(flushing)
  /\ lastOp' = "flushResume"
  /\ UNCHANGED <<queue, queries, nextId>>
  /\ UNCHANGED <<cbVars, caVars>>

DbSucceeds == \E q \in 1..Len(queries) : DbSucceed(q)
DbFails == \E q \in 1..Len(queries) : DbFail(q)
FlushResumes == \E q \in 1..Len(queries) : FlushResume(q)

Next ==
  \/ EnqueueJob
  \/ Flush
  \/ DbSucceeds
  \/ DbFails
  \/ FlushResumes

Spec == Init /\ [][Next]_vars

\* The interval timer keeps firing, every query returns or fails, and the
\* continuation of an answered query runs.
LiveSpec ==
  /\ Spec
  /\ WF_vars(Flush)
  /\ WF_vars(DbSucceeds \/ DbFails)
  /\ WF_vars(FlushResumes)

\* Bulk load: creates are enqueued before the first drain only.
EnqueueBulk ==
  /\ Len(settled) < MaxBulk
  /\ cycles = <<>>
  /\ Enqueue("create", BulkPayload)

BulkNext ==
  \/ EnqueueBulk
  \/ Flush
  \/ DbSucceeds
  \/ DbFails
  \/ FlushResumes

BulkSpec == Init /\ [][BulkNext]_vars

\* ---- circuit breakers ------------------------------------------------------
\* export const dbCircuit = new CircuitBreaker("postgres", 3, 20_000, 2);
\* export const redisCircuit = new CircuitBreaker("redis", 5, 30_000, 3);
Breakers == {"postgres", "redis"}

threshold(name) == IF name = "postgres" THEN 3 ELSE 5

timeout(name) == IF name = "postgres" THEN 20000 ELSE 30000

successThreshold(name) == IF name = "postgres" THEN 2 ELSE 3

\* what the guarded function can throw, what it returns, and what a
\* fallback returns
FnErrors == {"ECONNREFUSED", "23505"}

FnValue == [kind |-> "value", from |-> "fn"]

FallbackValue == [kind |-> "value", from |-> "fallback"]

FnError(err) == [kind |-> "error", from |-> "fn", message |-> err]

\* new Error(`Circuit ${this.name} is OPEN`)
OpenError(name) == [kind |-> "error", from |-> "breaker", message |-> name]

\* Fault: >= in place of >.
OpenElapsedInclusive(t, last, limit) == t - last >= limit

\* Date.now() - this.lastFailureTime > this.timeout
OpenElapsed(t, last, limit) == t - last > limit

\* execute, before the try: TRUE when the call is turned away
FastFails(b, name, t) ==
  b.state = "OPEN" /\ ~OpenElapsed(t, b.lastFailureTime, timeout(name))

\* Fault: the breaker is not moved to HALF_OPEN when the open time is over.
AdmitStaysOpen(b, name, t) == b

\* execute, before the try: the breaker as the admitted call leaves it
Admit(b, name, t) ==
  IF b.state = "OPEN" /\ OpenElapsed(t, b.lastFailureTime, timeout(name))
  THEN [b EXCEPT !.state = "HALF_OPEN"]
  ELSE b

\* Fault: the fallback is not consulted when the circuit is open.
FastFailThrows(name, fb) == OpenError(name)

\* if (fallback) return fallback(); throw new Error(...)
FastFailResult(name, fb) == IF fb THEN FallbackValue ELSE OpenError(name)

\* Fault: the caught error is replaced by a breaker error.
FailureResultWrapped(name, fb, err) ==
  IF fb THEN FallbackValue ELSE OpenError(name)

\* Fault: the caught error is rethrown although there is a fallback.
FailureResultRethrows(name, fb, err) == FnError(err)

\* catch (err) { ...; if (fallback) return fallback(); throw err; }
FailureResult(name, fb, err) == IF fb THEN FallbackValue ELSE FnError(err)

\* Fault: failures is reset only when the breaker closes.
OnSuccessKeepsFailures(b, name) ==
  IF b.state = "HALF_OPEN"
  THEN IF b.successCount + 1 >= successThreshold(name)
       THEN [b EXCEPT !.failures = 0, !.state = "CLOSED", !.successCount = 0]
       ELSE [b EXCEPT !.successCount = b.successCount + 1]
  ELSE b

\* Fault: successCount is not reset when the breaker closes.
OnSuccessKeepsCount(b, name) ==
  IF b.state = "HALF_OPEN"
  THEN IF b.successCount + 1 >= successThreshold(name)
       THEN [b EXCEPT !.failures = 0, !.state = "CLOSED",
                      !.successCount = b.successCount + 1]
       ELSE [b EXCEPT !.failures = 0, !.successCount = b.successCount + 1]
  ELSE [b EXCEPT !.failures = 0]

\* Fault: failures is reset by a success in CLOSED or OPEN only.
OnSuccessClosesDirty(b, name) ==
  IF b.state = "HALF_OPEN"
  THEN IF b.successCount + 1 >= successThreshold(name)
       THEN [b EXCEPT !.state = "CLOSED", !.successCount = 0]
       ELSE [b EXCEPT !.successCount = b.successCount + 1]
  ELSE [b EXCEPT !.failures = 0]

\* CircuitBreaker.onSuccess
OnSuccess(b, name) ==
  IF b.state = "HALF_OPEN"
  THEN IF b.successCount + 1 >= successThreshold(name)
       THEN [b EXCEPT !.failures = 0, !.state = "CLOSED", !.successCount = 0]
       ELSE [b EXCEPT !.failures = 0, !.successCount = b.successCount + 1]
  ELSE [b EXCEPT !.failures = 0]

\* Fault: > in place of >= on the failure count.
OnFailureStrict(b, name, t) ==
  IF b.failures + 1 > threshold(name) \/ b.state = "HALF_OPEN"
  THEN [state |-> "OPEN", failures |-> b.failures + 1, successCount |-> 0,
        lastFailureTime |-> t]
  ELSE [b EXCEPT !.failures = b.failures + 1, !.lastFailureTime = t]

\* Fault: the HALF_OPEN disjunct is missing.
OnFailureCountOnly(b, name, t) ==
  IF b.failures + 1 >= threshold(name)
  THEN [state |-> "OPEN", failures |-> b.failures + 1, successCount |-> 0,
        lastFailureTime |-> t]
  ELSE [b EXCEPT !.failures = b.failures + 1, !.lastFailureTime = t]

\* Fault: successCount is not reset when the breaker opens.
OnFailureKeepsCount(b, name, t) ==
  IF b.failures + 1 >= threshold(name) \/ b.state = "HALF_OPEN"
  THEN [b EXCEPT !.state = "OPEN", !.failures = b.failures + 1,
                 !.lastFailureTime = t]
  ELSE [b EXCEPT !.failures = b.failures + 1, !.lastFailureTime = t]

\* CircuitBreaker.onFailure
OnFailure(b, name, t) ==
  IF b.failures + 1 >= threshold(name) \/ b.state = "HALF_OPEN"
  THEN [state |-> "OPEN", failures |-> b.failures + 1, successCount |-> 0,
        lastFailureTime |-> t]
  ELSE [b EXCEPT !.failures = b.failures + 1, !.lastFailureTime = t]

\* CircuitBreaker.onFailure: TRUE when this.emit("open") is reached
EmitsOpen(b, name) ==
  b.failures + 1 >= threshold(name) \/ b.state = "HALF_OPEN"

\* Fault: a value returned by the fallback is recorded as a success.
FallbackCounted(b, name, fb) == IF fb THEN OnSuccess(b, name) ELSE b

\* if (fallback) return fallback(): the breaker as the fallback leaves it;
\* no field is read or written between the call and the return
AfterFallback(b, name, fb) == b

InFlightTotal(names) ==
  LET cnt(name) == inflight[<<name, TRUE>>] + inflight[<<name, FALSE>>]
      RECURSIVE Sum(_)
      Sum(S) == IF S = {} THEN 0
                ELSE LET x == CHOOSE x \in S : TRUE IN cnt(x) + Sum(S \ {x})
  IN Sum(names)

\* the time openedAt records after a breaker step from b to nb
OpenedAfter(b, nb, was, t) ==
  IF b.state # "OPEN" /\ nb.state = "OPEN" THEN t ELSE was

\* CircuitBreaker.execute, from the call to the awaited fn() or to the
\* early return
ExecuteBegin(name, fb) ==
  /\ IF FastFails(cb[name], name, now)
     THEN /\ cbEvent' = [op |-> "fastFail", name |-> name, fb |-> fb,
                         was |-> cb[name],
                         result |-> FastFailResult(name, fb)]
          /\ cb' = [cb EXCEPT ![name] = AfterFallback(cb[name], name, fb)]
          /\ UNCHANGED inflight
     ELSE /\ InFlightTotal(Breakers) < MaxInFlight
          /\ cb' = [cb EXCEPT ![name] = Admit(cb[name], name, now)]
          /\ inflight' = [inflight EXCEPT ![<<name, fb>>] = @ + 1]
          /\ cbEvent' = [op |-> "invoke", name |-> name, fb |-> fb,
                         was |-> cb[name]]
  /\ UNCHANGED <<now, openedAt, streak>>
  /\ UNCHANGED <<qVars, caVars>>

\* CircuitBreaker.execute, from the fulfilment of fn() to the return
ExecuteSucceed(name, fb) ==
  /\ inflight[<<name, fb>>] > 0
  /\ inflight' = [inflight EXCEPT ![<<name, fb>>] = @ - 1]
  /\ cb' = [cb EXCEPT ![name] = OnSuccess(cb[name], name)]
  /\ streak' = [streak EXCEPT ![name] = 0]
  /\ cbEvent' = [op |-> "success", name |-> name, fb |-> fb,
                 was |-> cb[name], result |-> FnValue]
  /\ UNCHANGED <<now, openedAt>>
  /\ UNCHANGED <<qVars, caVars>>

\* CircuitBreaker.execute, from the rejection of fn() with err to the
\* return or rethrow
ExecuteFail(name, fb, err) ==
  /\ inflight[<<name, fb>>] > 0
  /\ inflight' = [inflight EXCEPT ![<<name, fb>>] = @ - 1]
  /\ cb' = [cb EXCEPT ![name] =
               AfterFallback(OnFailure(cb[name], name, now), name, fb)]
  /\ openedAt' = [openedAt EXCEPT ![name] =
                    OpenedAfter(cb[name], OnFailure(cb[name], name, now),
                                openedAt[name], now)]
  /\ streak' = [streak EXCEPT ![name] = @ + 1]
  /\ cbEvent' = [op |-> "failure", name |-> name, fb |-> fb,
                 was |-> cb[name], err |-> FnError(err),
                 result |-> FailureResult(name, fb, err),
                 emits |-> EmitsOpen(cb[name], name)]
  /\ UNCHANGED now
  /\ UNCHANGED <<qVars, caVars>>

\* the clock moves on: by one millisecond, or by the open duration of a
\* breaker
ClockSteps == {1} \cup {timeout(name) : name \in Breakers}

ClockAdvance ==
  /\ \E d \in ClockSteps :
       /\ now + d <= MaxTime
       /\ d = 1 => (now % 10000) < MaxDrift
       /\ now' = now + d
  /\ cbEvent' = [op |-> "clock"]
  /\ UNCHANGED <<cb, inflight, openedAt, streak>>
  /\ UNCHANGED <<qVars, caVars>>

\* a breaker that has seen no failure and has no call in flight
Untouched(name) ==
  /\ cb[name].state = "CLOSED"
  /\ cb[name].failures = 0
  /\ cb[name].lastFailureTime = 0
  /\ inflight[<<name, TRUE>>] = 0
  /\ inflight[<<name, FALSE>>] = 0

\* callers of one breaker at a time: a call on name is made while the other
\* breaker is untouched
Executes ==
  \E name \in Breakers, fb \in BOOLEAN :
    /\ \A other \in Breakers \ {name} : Untouched(other)
    /\ ExecuteBegin(name, fb)

FnSucceeds == \E name \in Breakers, fb \in BOOLEAN : ExecuteSucceed(name, fb)

FnFails ==
  \E name \in Breakers, fb \in BOOLEAN, err \in FnErrors :
    ExecuteFail(name, fb, err)

\* CircuitBreaker.getState
getState(name) == cb[name].state

\* Fault: reading the states closes the breakers.
HealthResets ==
  /\ cbEvent' = [op |-> "getState",
                 states |-> [name \in Breakers |-> getState(name)]]
  /\ cb' = [name \in Breakers |-> [cb[name] EXCEPT !.state = "CLOSED"]]
  /\ UNCHANGED <<now, inflight, openedAt, streak>>
  /\ UNCHANGED <<qVars, caVars>>

\* GET /health: the response carries getState() of both breakers
Health ==
  /\ cbEvent' = [op |-> "getState",
                 states |-> [name \in Breakers |-> getState(name)]]
  /\ UNCHANGED <<cb, now, inflight, openedAt, streak>>
  /\ UNCHANGED <<qVars, caVars>>

CbNext ==
  \/ Executes
  \/ FnSucceeds
  \/ FnFails
  \/ ClockAdvance
  \/ Health

CbSpec == Init /\ [][CbNext]_vars

\* ---- a dependency that recovers -------------------------------------------
\* the guarded functions may fail until DownUntil and succeed afterwards
FnFailsWhileDown ==
  /\ now <= DownUntil
  /\ FnFails

RecoverNext ==
  \/ Executes
  \/ FnSucceeds
  \/ FnFailsWhileDown
  \/ ClockAdvance

\* callers keep calling execute, every awaited fn() settles, time passes
RecoverSpec ==
  /\ Init
  /\ [][RecoverNext]_vars
  /\ WF_vars(Executes)
  /\ WF_vars(FnSucceeds)
  /\ WF_vars(ClockAdvance)

\* ---- the queue next to the storage breaker ---------------------------------
\* GET, PUT and DELETE /api/users/:id call dbCircuit.execute without a
\* fallback, one request at a time here, and before the first POST
RouteExecutes ==
  /\ Len(settled) = 0
  /\ inflight[<<"postgres", FALSE>>] = 0
  /\ ExecuteBegin("postgres", FALSE)

RouteFnSucceeds == ExecuteSucceed("postgres", FALSE)

RouteFnFails == \E err \in FnErrors : ExecuteFail("postgres", FALSE, err)

\* POST /api/users
EnqueueCreate ==
  /\ Len(settled) < MaxJobs
  /\ Enqueue("create", BulkPayload)

GuardNext ==
  \/ RouteExecutes
  \/ RouteFnSucceeds
  \/ RouteFnFails
  \/ ClockAdvance
  \/ EnqueueCreate
  \/ Flush
  \/ DbSucceeds
  \/ DbFails
  \/ FlushResumes

GuardSpec == Init /\ [][GuardNext]_vars

\* ---- the routes on /api/users/:id ----------------------------------------
\* One user id.  The row is a version number: 0 at the start, one more with
\* every UPDATE.  JSON.stringify and JSON.parse carry the row unchanged
\* through the cache as far as the response body goes.  Reads of the replica
\* see the primary's row.  The breakers' history variables (inflight,
\* openedAt, streak) are not kept by these steps.
WriteKinds == {"PUT", "DELETE"}

\* what the queries and the redis commands of the routes fail with
RouteError == "ECONNREFUSED"

\* a request of a route that awaits the call pc and holds the row val
Request(kind, pc, val) == [kind |-> kind, pc |-> pc, val |-> val]

Awaiting(pc) == {r \in BagToSet(reqs) : r.pc = pc}

\* the bag of requests when request r goes on as r2, begins or ends
Moved(r, r2) == (reqs (-) SetToBag({r})) (+) SetToBag({r2})

Begun(r) == reqs (+) SetToBag({r})

Ended(r) == reqs (-) SetToBag({r})

\* catch (err) { metrics.errors++; next(err); }
ErrorResponse(kind, err) == [kind |-> kind, status |-> 500, err |-> err]

\* the events of a breaker step, as CbSpec records them
InvokeEvent(name, fb) ==
  [op |-> "invoke", name |-> name, fb |-> fb, was |-> cb[name]]

FastFailEvent(name, fb) ==
  [op |-> "fastFail", name |-> name, fb |-> fb, was |-> cb[name],
   result |-> FastFailResult(name, fb)]

SuccessEvent(name, fb) ==
  [op |-> "success", name |-> name, fb |-> fb, was |-> cb[name],
   result |-> FnValue]

FailureEvent(name, fb, err) ==
  [op |-> "failure", name |-> name, fb |-> fb, was |-> cb[name],
   err |-> FnError(err), result |-> FailureResult(name, fb, err),
   emits |-> EmitsOpen(cb[name], name)]

\* GET, lines 24-33: the miss and the call of dbCircuit.execute, the
\* breakers being cbs and the other requests rest
GetMiss(rest, cbs) ==
  IF FastFails(cbs["postgres"], "postgres", now)
  THEN /\ cb' = [cbs EXCEPT !["postgres"] =
                   AfterFallback(cbs["postgres"], "postgres", FALSE)]
       /\ reqs' = rest
       /\ resp' = ErrorResponse("GET", FastFailResult("postgres", FALSE))
  ELSE /\ cb' = [cbs EXCEPT !["postgres"] =
                   Admit(cbs["postgres"], "postgres", now)]
       /\ reqs' = rest (+) SetToBag({Request("GET", "dbRead", Null)})
       /\ UNCHANGED resp

\* GET, lines 17-22 after the await: r is what cacheGetWithCircuit returned
\* or threw, data the value it returned
GetLookedUp(rest, cbs, r, data) ==
  IF r.kind = "error"
  THEN /\ cb' = cbs
       /\ reqs' = rest
       /\ resp' = ErrorResponse("GET", r)
  ELSE IF data # Null
       THEN /\ cb' = cbs
            /\ reqs' = rest
            /\ resp' = [kind |-> "GET", status |-> 200, xcache |-> "HIT",
                        data |-> data]
       ELSE GetMiss(rest, cbs)

\* GET /api/users/:id, from the request to the first awaited call
GetArrives ==
  /\ arrivals < MaxReqs
  /\ BagCardinality(reqs) < MaxActive
  /\ arrivals' = arrivals + 1
  /\ IF FastFails(cb["redis"], "redis", now)
     THEN /\ cbEvent' = FastFailEvent("redis", TRUE)
          /\ GetLookedUp(reqs,
                         [cb EXCEPT !["redis"] =
                            AfterFallback(cb["redis"], "redis", TRUE)],
                         FastFailResult("redis", TRUE), Null)
     ELSE /\ cbEvent' = InvokeEvent("redis", TRUE)
          /\ cb' = [cb EXCEPT !["redis"] = Admit(cb["redis"], "redis", now)]
          /\ reqs' = Begun(Request("GET", "cacheGet", Null))
          /\ UNCHANGED resp
  /\ UNCHANGED <<store, cache, overwritten>>
  /\ UNCHANGED <<now, inflight, openedAt, streak>>
  /\ UNCHANGED qVars

\* redisCluster.get answered: val ? JSON.parse(val) : null
CacheGetSucceeds(r) ==
  /\ r.pc = "cacheGet"
  /\ cbEvent' = SuccessEvent("redis", TRUE)
  /\ GetLookedUp(Ended(r),
                 [cb EXCEPT !["redis"] = OnSuccess(cb["redis"], "redis")],
                 FnValue, cache)
  /\ UNCHANGED <<store, cache, arrivals, overwritten>>
  /\ UNCHANGED <<now, inflight, openedAt, streak>>
  /\ UNCHANGED qVars

\* redisCluster.get failed
CacheGetFails(r) ==
  /\ r.pc = "cacheGet"
  /\ cbEvent' = FailureEvent("redis", TRUE, RouteError)
  /\ GetLookedUp(Ended(r),
                 [cb EXCEPT !["redis"] =
                    AfterFallback(OnFailure(cb["redis"], "redis", now),
                                  "redis", TRUE)],
                 FailureResult("redis", TRUE, RouteError), Null)
  /\ UNCHANGED <<store, cache, arrivals, overwritten>>
  /\ UNCHANGED <<now, inflight, openedAt, streak>>
  /\ UNCHANGED qVars

\* the SELECT answered: lines 35-41, with the call of cacheSetWithCircuit
DbReadSucceeds(r) ==
  /\ r.pc = "dbRead"
  /\ cbEvent' = SuccessEvent("postgres", FALSE)
  /\ LET cbs == [cb EXCEPT !["postgres"] =
                   OnSuccess(cb["postgres"], "postgres")]
     IN IF store = Absent
        THEN /\ cb' = cbs
             /\ reqs' = Ended(r)
             /\ resp' = [kind |-> "GET", status |-> 404]
        ELSE /\ resp' = [kind |-> "GET", status |-> 200, xcache |-> "MISS",
                         data |-> store]
             /\ IF FastFails(cbs["redis"], "redis", now)
                THEN /\ cb' = [cbs EXCEPT !["redis"] =
                                 AfterFallback(cbs["redis"], "redis", TRUE)]
                     /\ reqs' = Ended(r)
                ELSE /\ cb' = [cbs EXCEPT !["redis"] =
                                 Admit(cbs["redis"], "redis", now)]
                     /\ reqs' = Moved(r, Request("GET", "cacheSet", store))
  /\ UNCHANGED <<store, cache, arrivals, overwritten>>
  /\ UNCHANGED <<now, inflight, openedAt, streak>>
  /\ UNCHANGED qVars

\* a query through dbCircuit failed: lines 42-45, 89-92, 108-111
DbFailsRoute(r) ==
  /\ r.pc \in {"dbRead", "dbWrite"}
  /\ cbEvent' = FailureEvent("postgres", FALSE, RouteError)
  /\ cb' = [cb EXCEPT !["postgres"] =
               AfterFallback(OnFailure(cb["postgres"], "postgres", now),
                             "postgres", FALSE)]
  /\ reqs' = Ended(r)
  /\ resp' = ErrorResponse(r.kind, FailureResult("postgres", FALSE, RouteError))
  /\ UNCHANGED <<store, cache, arrivals, overwritten>>
  /\ UNCHANGED <<now, inflight, openedAt, streak>>
  /\ UNCHANGED qVars

\* redisCluster.setEx answered or failed (ok: answered); the response went
\* out before
CacheSetReturns(r, ok) ==
  /\ r.pc = "cacheSet"
  /\ IF ok
     THEN /\ cache' = r.val
          /\ cbEvent' = SuccessEvent("redis", TRUE)
          /\ cb' = [cb EXCEPT !["redis"] = OnSuccess(cb["redis"], "redis")]
     ELSE /\ cache' = cache
          /\ cbEvent' = FailureEvent("redis", TRUE, RouteError)
          /\ cb' = [cb EXCEPT !["redis"] =
                      AfterFallback(OnFailure(cb["redis"], "redis", now),
                                    "redis", TRUE)]
  /\ reqs' = Ended(r)
  /\ UNCHANGED <<store, arrivals, overwritten, resp>>
  /\ UNCHANGED <<now, inflight, openedAt, streak>>
  /\ UNCHANGED qVars

\* PUT and DELETE /api/users/:id, from the request to the awaited query
WriteArrives(kind) ==
  /\ arrivals < MaxReqs
  /\ BagCardinality(reqs) < MaxActive
  /\ arrivals' = arrivals + 1
  /\ IF FastFails(cb["postgres"], "postgres", now)
     THEN /\ cbEvent' = FastFailEvent("postgres", FALSE)
          /\ cb' = [cb EXCEPT !["postgres"] =
                      AfterFallback(cb["postgres"], "postgres", FALSE)]
          /\ resp' = ErrorResponse(kind, FastFailResult("postgres", FALSE))
          /\ UNCHANGED reqs
     ELSE /\ cbEvent' = InvokeEvent("postgres", FALSE)
          /\ cb' = [cb EXCEPT !["postgres"] =
                      Admit(cb["postgres"], "postgres", now)]
          /\ reqs' = Begun(Request(kind, "dbWrite", Null))
          /\ UNCHANGED resp
  /\ UNCHANGED <<store, cache, overwritten>>
  /\ UNCHANGED <<now, inflight, openedAt, streak>>
  /\ UNCHANGED qVars

\* the UPDATE or DELETE answered: the row is written, the cache delete is
\* started without a breaker and not awaited, the response goes out
DbWriteSucceeds(r) ==
  /\ r.pc = "dbWrite"
  /\ cbEvent' = SuccessEvent("postgres", FALSE)
  /\ cb' = [cb EXCEPT !["postgres"] = OnSuccess(cb["postgres"], "postgres")]
  /\ IF store = Absent
     THEN /\ reqs' = Ended(r)
          /\ resp' = [kind |-> r.kind, status |-> 404]
          /\ UNCHANGED store
     ELSE /\ store' = IF r.kind = "PUT" THEN store + 1 ELSE Absent
          /\ reqs' = Moved(r, Request(r.kind, "cacheDel", store))
          /\ resp' = IF r.kind = "PUT"
                     THEN [kind |-> "PUT", status |-> 200, data |-> store + 1]
                     ELSE [kind |-> "DELETE", status |-> 204]
  /\ UNCHANGED <<cache, arrivals, overwritten>>
  /\ UNCHANGED <<now, inflight, openedAt, streak>>
  /\ UNCHANGED qVars

\* redisCluster.del answered or failed (ok: answered): .catch(() => {})
CacheDelReturns(r, ok) ==
  /\ r.pc = "cacheDel"
  /\ cache' = IF ok THEN Null ELSE cache
  /\ overwritten' = overwritten \cup {r.val}
  /\ reqs' = Ended(r)
  /\ cbEvent' = [op |-> "del", ok |-> ok]
  /\ UNCHANGED <<store, arrivals, resp>>
  /\ UNCHANGED <<cb, now, inflight, openedAt, streak>>
  /\ UNCHANGED qVars

WritesArrive == \E kind \in WriteKinds : WriteArrives(kind)

CacheGetReturns ==
  \E r \in BagToSet(reqs) :
    \/ CacheGetSucceeds(r)
    \/ CacheGetFails(r)

DbReturns ==
  \E r \in BagToSet(reqs) :
    \/ DbReadSucceeds(r)
    \/ DbWriteSucceeds(r)
    \/ DbFailsRoute(r)

CacheWriteReturns ==
  \E r \in BagToSet(reqs) :
    \/ \E ok \in BOOLEAN : CacheSetReturns(r, ok)
    \/ \E ok \in BOOLEAN : CacheDelReturns(r, ok)

\* time passes while a breaker is Open and no request is being handled
QuietClock ==
  /\ reqs = EmptyBag
  /\ \E name \in Breakers : cb[name].state = "OPEN"
  /\ ClockAdvance

CacheNext ==
  \/ GetArrives
  \/ WritesArrive
  \/ CacheGetReturns
  \/ DbReturns
  \/ CacheWriteReturns
  \/ QuietClock

CacheSpec == Init /\ [][CacheNext]_vars

\* ---- vocabulary of the properties ---------------------------------------
JobIds == 1..Len(settled)

\* how many places of the pending sequence hold job id
QueueCount(id) == Cardinality({k \in 1..Len(queue) : queue[k].id = id})

\* how many places of drained batches hold job id
BatchPlaces ==
  UNION {{<<c, k>> : k \in 1..Len(cycles[c].batch)} : c \in 1..Len(cycles)}

BatchCount(id) ==
  Cardinality({ck \in BatchPlaces : cycles[ck[1]].batch[ck[2]].id = id})

InBatch(c, id) == \E k \in 1..Len(cycles[c].batch) : cycles[c].batch[k].id = id

\* all jobs the queue has accepted, wherever they are now
AllJobs ==
  {queue[k] : k \in 1..Len(queue)} \cup
  UNION {{cycles[c].batch[k] : k \in 1..Len(cycles[c].batch)} :
           c \in 1..Len(cycles)}

\* the creates of a batch, in batch order
CreatesIn(batch) == SelectSeq(batch, LAMBDA j : j.type = "create")

IsCreateJob(id) == \E j \in AllJobs : j.id = id /\ j.type = "create"

Finished(c) == cycles[c].status \in {"resolved", "rejected", "nocall"}

QueriesOf(c) == {q \in 1..Len(queries) : queries[q].cycle = c}

TypeOK ==
  /\ flushing \in BOOLEAN
  /\ Len(settled) = Len(settleCalls)
  /\ nextId >= 1
  /\ \A id \in JobIds : settled[id].kind \in {"pending", "ok", "err"}

\* ---- C1 -------------------------------------------------------------------
\* C1: with the timer ticking and every query answered, every create job
\* that was enqueued is eventually settled, and over the whole run resolve or
\* reject is called at most once for a job and a settled promise never
\* changes (so never both a record and a failure).
C1_CreatesSettleOnce ==
  /\ \A id \in 1..MaxJobs :
       (id \in JobIds /\ IsCreateJob(id)) ~> (id \in JobIds /\ settled[id] # Pending)
  /\ [](\A id \in JobIds : settleCalls[id] <= 1)
  /\ [][\A id \in JobIds : settled[id] # Pending => settled'[id] = settled[id]]_vars

\* two creates of different batches, one fulfilled and one rejected, each by
\* a single call
C1_Witness ==
  \E a, b \in JobIds :
    /\ IsCreateJob(a) /\ IsCreateJob(b)
    /\ settled[a].kind = "ok" /\ settled[b].kind = "err"
    /\ settleCalls[a] = 1 /\ settleCalls[b] = 1

\* ---- C2 -------------------------------------------------------------------
\* C2: when the INSERT of a batch succeeded and flush has resumed, the i-th
\* create of the batch (submission order) holds the i-th row the backend
\* returned for that batch's query; it is a row, and no two jobs hold the
\* same row.
C2_PositionalMatch ==
  /\ \A q \in 1..Len(queries) :
       cycles[queries[q].cycle].status = "resolved" =>
         LET creates == CreatesIn(cycles[queries[q].cycle].batch)
         IN /\ Len(queries[q].rows) = Len(creates)
            /\ \A i \in 1..Len(creates) :
                 /\ settled[creates[i].id] = Fulfilled(queries[q].rows[i])
                 /\ queries[q].rows[i].name = creates[i].payload.name
                 /\ queries[q].rows[i].email = creates[i].payload.email
  /\ \A a, b \in JobIds :
       (a # b /\ settled[a].kind = "ok" /\ settled[b].kind = "ok")
         => settled[a].row.id # settled[b].row.id

\* a resolved batch with an update ahead of two creates of different payloads
C2_Witness ==
  \E c \in 1..Len(cycles) :
    /\ cycles[c].status = "resolved"
    /\ Len(cycles[c].batch) = 3
    /\ cycles[c].batch[1].type = "update"
    /\ cycles[c].batch[2].type = "create"
    /\ cycles[c].batch[3].type = "create"
    /\ cycles[c].batch[2].payload # cycles[c].batch[3].payload
    /\ settled[cycles[c].batch[3].id].kind = "ok"

\* ---- C3 -------------------------------------------------------------------
\* C3: every enqueued job is in exactly one place: either once in the pending
\* sequence or once in one drained batch; and a job that has been drained is
\* never in the pending sequence again.
C3_Partition ==
  /\ [](\A id \in JobIds : QueueCount(id) + BatchCount(id) = 1)
  /\ [][\A id \in JobIds : BatchCount(id) > 0 => QueueCount(id)' = 0]_vars

\* two finished batches (one of them failed) and a job still pending
C3_Witness ==
  /\ Len(cycles) >= 2
  /\ \E c \in 1..Len(cycles) : cycles[c].status = "rejected"
  /\ Len(queue) >= 1

\* ---- C4 -------------------------------------------------------------------
\* C4: once flush has resumed from a failed INSERT, every job of that batch,
\* whatever its type, is rejected with that query's error by one call, is
\* not in the pending sequence and is in no other batch.
C4_BatchFailure ==
  \A q \in 1..Len(queries) :
    cycles[queries[q].cycle].status = "rejected" =>
      \A k \in 1..Len(cycles[queries[q].cycle].batch) :
        LET id == cycles[queries[q].cycle].batch[k].id
        IN /\ settled[id] = Rejected(queries[q].err)
           /\ settleCalls[id] = 1
           /\ QueueCount(id) = 0
           /\ BatchCount(id) = 1

\* a rejected batch that holds a create, an update and a delete
C4_Witness ==
  \E c \in 1..Len(cycles) :
    /\ cycles[c].status = "rejected"
    /\ \A t \in JobTypes :
         \E k \in 1..Len(cycles[c].batch) : cycles[c].batch[k].type = t

\* ---- C5 -------------------------------------------------------------------
\* C5: every update or delete job of a batch whose flush cycle has finished
\* is settled, with a result or a failure.
C5_UpdateDeleteSettled ==
  \A c \in 1..Len(cycles) :
    Finished(c) =>
      \A k \in 1..Len(cycles[c].batch) :
        cycles[c].batch[k].type \in {"update", "delete"}
          => settled[cycles[c].batch[k].id] # Pending

C7_FlushMutex ==
  /\ [](Cardinality({c \in 1..Len(cycles) : cycles[c].status = "awaiting"}) <= 1)
  /\ [][(lastOp' \in {"flushSkip", "flushDrain"} /\ (flushing \/ Len(queue) = 0))
          => UNCHANGED <<queue, flushing, cycles, queries, settled,
                         settleCalls, nextId>>]_vars

\* a tick was skipped while a query was pending and jobs were waiting
C7_Witness ==
  /\ lastOp = "flushSkip"
  /\ flushing
  /\ Len(queue) > 0
  /\ \E q \in 1..Len(queries) : queries[q].status = "pending"

\* ---- C8 -------------------------------------------------------------------
\* C8: a flush cycle that passes the guard drains exactly the first
\* min(100, pending length) jobs, in order, and leaves the others in the
\* pending sequence in their order.
C8_BatchBound ==
  [][(lastOp' = "flushDrain" \/ Len(cycles') # Len(cycles)) =>
        LET n == IF Len(queue) < 100 THEN Len(queue) ELSE 100
        IN /\ Len(cycles') = Len(cycles) + 1
           /\ cycles'[Len(cycles')].batch = SubSeq(queue, 1, n)
           /\ queue' = SubSeq(queue, n + 1, Len(queue))]_vars

\* a full batch of 100 was drained with jobs left over, and a later batch
\* was shorter
C8_Witness ==
  /\ Len(cycles) >= 2
  /\ Len(cycles[1].batch) = 100
  /\ Len(cycles[2].batch) \in 1..99

\* ---- C9 -------------------------------------------------------------------
\* C9: a flush cycle has issued at most one query; a batch without a create
\* has issued none; the query of a batch with creates carries one VALUES
\* tuple per create, in batch order, bound to that create's name and email,
\* and nothing else.
C9_BulkSubmission ==
  /\ \A q \in 1..Len(queries) : queries[q].cycle \in 1..Len(cycles)
  /\ \A c \in 1..Len(cycles) :
       LET creates == CreatesIn(cycles[c].batch)
       IN /\ Cardinality(QueriesOf(c)) = (IF Len(creates) > 0 THEN 1 ELSE 0)
          /\ \A q \in QueriesOf(c) :
               /\ Len(queries[q].placeholders) = Len(creates)
               /\ Len(queries[q].values) = 2 * Len(creates)
               /\ \A i \in 1..Len(creates) :
                    /\ queries[q].values[queries[q].placeholders[i][1]]
                         = creates[i].payload.name
                    /\ queries[q].values[queries[q].placeholders[i][2]]
                         = creates[i].payload.email

\* a batch of create, update, create issued one query, and a batch without
\* creates issued none
C9_Witness ==
  /\ \E c \in 1..Len(cycles) :
       /\ Len(cycles[c].batch) = 3
       /\ cycles[c].batch[1].type = "create"
       /\ cycles[c].batch[2].type = "update"
       /\ cycles[c].batch[3].type = "create"
       /\ cycles[c].batch[1].payload # cycles[c].batch[3].payload
       /\ Cardinality(QueriesOf(c)) = 1

\* a finished batch without any create
C9_WitnessNoCall ==
  \E c \in 1..Len(cycles) : cycles[c].status = "nocall"

\* ---- C10 ------------------------------------------------------------------
\* C10: with 250 creates enqueued before the first tick and no failed query,
\* the batches drained so far have sizes 100, 100, 50 in that order, and
\* when nothing is left to do there are exactly 3 of them and all 250
\* promises are fulfilled.
C10_Scenario ==
  (/\ Len(settled) = 250
   /\ cycles # <<>>
   /\ \A q \in 1..Len(queries) : queries[q].status # "error")
    => /\ Len(cycles) <= 3
       /\ \A c \in 1..Len(cycles) : Len(cycles[c].batch) = <<100, 100, 50>>[c]
       /\ (queue = <<>> /\ \A c \in 1..Len(cycles) : Finished(c))
            => /\ Len(cycles) = 3
               /\ \A id \in 1..250 : settled[id].kind = "ok"

\* the 250 promises are fulfilled after three batches
C10_Witness ==
  /\ Len(settled) = 250
  /\ Len(cycles) = 3
  /\ \A id \in 1..250 : settled[id].kind = "ok"

\* ---- C11 ------------------------------------------------------------------
\* the flush cycle that drained job id (0 while it is pending) and the
\* 1-based place of the job in that cycle's batch
CycleOfJob(id) ==
  IF \E c \in 1..Len(cycles) : InBatch(c, id)
  THEN CHOOSE c \in 1..Len(cycles) : InBatch(c, id)
  ELSE 0

PlaceInBatch(c, id) ==
  CHOOSE k \in 1..Len(cycles[c].batch) : cycles[c].batch[k].id = id

\* C11: for creates a and b with a enqueued before b: when b has been
\* drained, a has been drained in the same or an earlier batch; in a shared
\* batch a stands before b; b is never settled while a is still pending; and
\* when both were inserted a's row comes before b's.
C11_Ordering ==
  \A a, b \in JobIds :
    (a < b /\ IsCreateJob(a) /\ IsCreateJob(b)) =>
      /\ CycleOfJob(b) # 0 =>
           /\ CycleOfJob(a) # 0
           /\ CycleOfJob(a) <= CycleOfJob(b)
           /\ CycleOfJob(a) = CycleOfJob(b) =>
                PlaceInBatch(CycleOfJob(a), a) < PlaceInBatch(CycleOfJob(b), b)
      /\ settled[b] # Pending => settled[a] # Pending
      /\ (settled[a].kind = "ok" /\ settled[b].kind = "ok") =>
           settled[a].row.id < settled[b].row.id

\* two creates that shared a batch and a third of a later batch, all
\* fulfilled
C11_Witness ==
  /\ Len(settled) = 3
  /\ \A id \in 1..3 : IsCreateJob(id) /\ settled[id].kind = "ok"
  /\ CycleOfJob(1) = CycleOfJob(2)
  /\ CycleOfJob(2) < CycleOfJob(3)

\* ---- vocabulary of the breaker properties ---------------------------------
\* the step taken is the return of a guarded function of breaker name
SuccessOn(name) == cbEvent'.op = "success" /\ cbEvent'.name = name

FailureOn(name) == cbEvent'.op = "failure" /\ cbEvent'.name = name

\* the step taken is the first half of an execute call on breaker name
CallOn(name) == cbEvent'.op \in {"fastFail", "invoke"} /\ cbEvent'.name = name

\* calls on breaker name awaiting their guarded function
InFlightOn(name) == inflight[<<name, TRUE>>] + inflight[<<name, FALSE>>]

\* ---- C12 ------------------------------------------------------------------
\* C12: no query reaches shard 0 from a flush cycle while the postgres
\* breaker is Open with now - lastFailureTime <= timeout, and every failed
\* INSERT adds 1 to the failures of the postgres breaker.
C12_FlushThroughBreaker ==
  [][/\ (/\ cb["postgres"].state = "OPEN"
         /\ now - cb["postgres"].lastFailureTime <= timeout("postgres"))
          => Len(queries') = Len(queries)
     /\ \A q \in 1..Len(queries) :
          (queries[q].status = "pending" /\ queries'[q].status = "error")
            => cb'["postgres"].failures = cb["postgres"].failures + 1]_vars

\* ---- C13 ------------------------------------------------------------------
\* C13: a Closed breaker has seen fewer than failureThreshold failures in a
\* row, and a failure arriving in Closed opens the breaker exactly when it
\* is the failureThreshold-th in a row (3 for postgres, 5 for redis);
\* otherwise the breaker stays Closed.
C13_Opening ==
  /\ [](\A name \in Breakers :
          cb[name].state = "CLOSED" => streak[name] < threshold(name))
  /\ [][\A name \in Breakers :
          (FailureOn(name) /\ cb[name].state = "CLOSED") =>
            IF streak'[name] >= threshold(name)
            THEN cb'[name].state = "OPEN"
            ELSE cb'[name].state = "CLOSED"]_vars

\* postgres was opened by its third failure in a row
C13_Witness ==
  /\ cbEvent.op = "failure"
  /\ cbEvent.name = "postgres"
  /\ cbEvent.was.state = "CLOSED"
  /\ cbEvent.was.failures = 2
  /\ streak["postgres"] = 3
  /\ cb["postgres"].state = "OPEN"

\* ---- C14 ------------------------------------------------------------------
\* C14: failures is the number of failures since the last success: every
\* success sets it to 0, and a success arriving in Closed leaves the breaker
\* Closed.
C14_ConsecutiveCounter ==
  /\ [](\A name \in Breakers : cb[name].failures = streak[name])
  /\ [][\A name \in Breakers :
          SuccessOn(name) =>
            /\ cb'[name].failures = 0
            /\ cb[name].state = "CLOSED" => cb'[name].state = "CLOSED"]_vars

\* a success wiped two failures of the Closed postgres breaker
C14_Witness ==
  /\ cbEvent.op = "success"
  /\ cbEvent.name = "postgres"
  /\ cbEvent.was.state = "CLOSED"
  /\ cbEvent.was.failures = 2
  /\ cb["postgres"].state = "CLOSED"
  /\ cb["postgres"].failures = 0

\* ---- C15 ------------------------------------------------------------------
\* C15: an execute call made while the breaker is Open and
\* now - lastFailureTime <= timeout ends at once, with the fallback's value
\* or an error, starts no guarded function and leaves the breaker's fields
\* as they were.
C15_FastFail ==
  [][\A name \in Breakers :
       (/\ CallOn(name)
        /\ cb[name].state = "OPEN"
        /\ now - cb[name].lastFailureTime <= timeout(name)) =>
         /\ cbEvent'.op = "fastFail"
         /\ cbEvent'.result.kind \in {"value", "error"}
         /\ inflight' = inflight
         /\ cb' = cb]_vars

\* a call was turned away exactly timeout ms after the last failure
C15_Witness ==
  /\ cbEvent.op = "fastFail"
  /\ cb[cbEvent.name].state = "OPEN"
  /\ now - cb[cbEvent.name].lastFailureTime = timeout(cbEvent.name)

\* ---- C16 ------------------------------------------------------------------
\* C16: an execute call made on an Open breaker later than timeout ms after
\* the breaker became Open moves it to HalfOpen and starts the guarded
\* function once.
C16_ProbeAfterOpened ==
  [][\A name \in Breakers :
       (/\ CallOn(name)
        /\ cb[name].state = "OPEN"
        /\ now > openedAt[name] + timeout(name)) =>
         /\ cbEvent'.op = "invoke"
         /\ cb'[name].state = "HALF_OPEN"
         /\ InFlightOn(name)' = InFlightOn(name) + 1]_vars

\* ---- C17 ------------------------------------------------------------------
\* C17: a success arriving in HalfOpen that brings successCount to
\* successThreshold closes the breaker with failures = 0 and
\* successCount = 0; an earlier one adds 1 to successCount and leaves the
\* breaker HalfOpen.
C17_Closing ==
  [][\A name \in Breakers :
       (SuccessOn(name) /\ cb[name].state = "HALF_OPEN") =>
         IF cb[name].successCount + 1 >= successThreshold(name)
         THEN /\ cb'[name].state = "CLOSED"
              /\ cb'[name].failures = 0
              /\ cb'[name].successCount = 0
         ELSE /\ cb'[name].state = "HALF_OPEN"
              /\ cb'[name].successCount = cb[name].successCount + 1]_vars

\* redis was closed by its third success in HalfOpen
C17_Witness ==
  /\ cbEvent.op = "success"
  /\ cbEvent.name = "redis"
  /\ cbEvent.was.state = "HALF_OPEN"
  /\ cbEvent.was.successCount = 2
  /\ cb["redis"].state = "CLOSED"

\* ---- C18 ------------------------------------------------------------------
\* C18: a failure arriving in HalfOpen opens the breaker whatever failures
\* is, sets successCount to 0 and lastFailureTime to the current time; an
\* Open breaker always has successCount = 0, so the next probe starts from
\* no success.
C18_Reopening ==
  /\ [](\A name \in Breakers :
          cb[name].state = "OPEN" => cb[name].successCount = 0)
  /\ [][\A name \in Breakers :
          (FailureOn(name) /\ cb[name].state = "HALF_OPEN") =>
            /\ cb'[name].state = "OPEN"
            /\ cb'[name].successCount = 0
            /\ cb'[name].lastFailureTime = now]_vars

\* postgres, HalfOpen with one success and failures = 0, was opened by one
\* failure
C18_Witness ==
  /\ cbEvent.op = "failure"
  /\ cbEvent.name = "postgres"
  /\ cbEvent.was.state = "HALF_OPEN"
  /\ cbEvent.was.successCount = 1
  /\ cbEvent.was.failures = 0
  /\ cb["postgres"].state = "OPEN"
  /\ cb["postgres"].lastFailureTime = now

\* ---- C19 ------------------------------------------------------------------
\* C19: a call turned away by the Open breaker returns the fallback's value
\* when it has a fallback and throws the breaker's own error otherwise; no
\* call whose guarded function ran ends with that error, and the error the
\* guarded function threw is never that error.
C19_OpenCircuitOutcome ==
  /\ cbEvent.op = "fastFail" =>
       /\ cbEvent.was.state = "OPEN"
       /\ cbEvent.result =
            (IF cbEvent.fb THEN FallbackValue ELSE OpenError(cbEvent.name))
  /\ cbEvent.op \in {"success", "failure"} =>
       \A name \in Breakers : cbEvent.result # OpenError(name)
  /\ cbEvent.op = "failure" =>
       \A name \in Breakers : cbEvent.err # OpenError(name)

\* a call with a fallback was turned away and got the fallback's value
C19_Witness ==
  /\ cbEvent.op = "fastFail"
  /\ cbEvent.fb
  /\ cbEvent.result = FallbackValue

\* ---- C20 ------------------------------------------------------------------
\* C20: when the guarded function of a call admitted in Closed or HalfOpen
\* fails, the breaker has counted the failure (failures + 1, lastFailureTime
\* = now, Open when the rule says so) with or without a fallback, and the
\* call returns the fallback's value if it has one and throws the function's
\* own error otherwise.
C20_GuardedFailure ==
  [][\A name \in Breakers :
       (FailureOn(name) /\ cb[name].state \in {"CLOSED", "HALF_OPEN"}) =>
         /\ cb'[name].failures = cb[name].failures + 1
         /\ cb'[name].lastFailureTime = now
         /\ cb'[name].state =
              (IF cb[name].state = "HALF_OPEN"
                  \/ cb[name].failures + 1 >= threshold(name)
               THEN "OPEN" ELSE "CLOSED")
         /\ cbEvent'.result =
              (IF cbEvent'.fb THEN FallbackValue ELSE cbEvent'.err)]_vars

\* a call without fallback rethrew the function's error in HalfOpen
C20_Witness ==
  /\ cbEvent.op = "failure"
  /\ ~cbEvent.fb
  /\ cbEvent.was.state = "HALF_OPEN"
  /\ cbEvent.result = FnError("23505")

C22_OpenOncePerStay ==
  [][\A name \in Breakers :
       /\ (FailureOn(name) /\ cbEvent'.emits)
            => cb[name].state \in {"CLOSED", "HALF_OPEN"}
       /\ (cb[name].state # "OPEN" /\ cb'[name].state = "OPEN")
            => (FailureOn(name) /\ cbEvent'.emits)]_vars

\* ---- C23 ------------------------------------------------------------------
\* C23: when the guarded functions stop failing and callers keep calling
\* execute, a breaker that is Open is Closed again later, with no step other
\* than execute calls, their outcomes and the passing of time.
C23_Recovery ==
  \A name \in Breakers :
    (cb[name].state = "OPEN") ~> (cb[name].state = "CLOSED")

\* redis, opened while the cache was down, was closed by the third
\* successful probe more than 30 s after its last failure
C23_Witness ==
  /\ cb["redis"].state = "CLOSED"
  /\ cb["redis"].lastFailureTime > 0
  /\ now - cb["redis"].lastFailureTime > timeout("redis")
  /\ cbEvent.op = "success"
  /\ cbEvent.name = "redis"
  /\ cbEvent.was.state = "HALF_OPEN"
  /\ cbEvent.was.successCount = successThreshold("redis") - 1

\* ---- C24 ------------------------------------------------------------------
\* C24: whatever the state of the redis breaker and whatever redis answers,
\* a call of the cache helpers ends with a value, a miss (null) when the
\* guarded call failed or was turned away; no response of a GET carries an
\* error of the cache, and a GET whose lookup failed or was turned away
\* goes on to dbCircuit.execute: it awaits the SELECT or is answered with
\* an error of the postgres path.
C24_CacheAbsorbed ==
  /\ []((cbEvent.op \in {"fastFail", "success", "failure"}
          /\ cbEvent.name = "redis")
           => /\ cbEvent.result.kind = "value"
              /\ (cbEvent.op # "success"
                    => cbEvent.result = FallbackValue))
  /\ []((resp.kind = "GET" /\ resp.status = 500)
           => resp.err \in {OpenError("postgres")}
                            \cup {FnError(err) : err \in FnErrors})
  /\ [][(/\ cbEvent'.op \in {"fastFail", "failure"}
          /\ cbEvent'.name = "redis"
          /\ \/ arrivals' = arrivals + 1
             \/ CopiesIn(Request("GET", "cacheGet", Null), reqs')
                  < CopiesIn(Request("GET", "cacheGet", Null), reqs))
           => \/ CopiesIn(Request("GET", "dbRead", Null), reqs')
                   = CopiesIn(Request("GET", "dbRead", Null), reqs) + 1
              \/ /\ resp' = ErrorResponse("GET", OpenError("postgres"))
                 /\ cb["postgres"].state = "OPEN"]_vars

\* a GET that the Open redis breaker turned away awaits the SELECT
C24_Witness ==
  /\ cbEvent.op = "fastFail"
  /\ cbEvent.name = "redis"
  /\ cbEvent.was.state = "OPEN"
  /\ Awaiting("dbRead") # {}

\* ---- C25 ------------------------------------------------------------------
\* C25: the fields of a breaker change only in a step of an execute call on
\* that breaker (the admission of a call or the outcome of its guarded
\* function): a step on one breaker leaves the other as it was, the passing
\* of time alone changes no field, and GET /health reports the two states
\* and changes nothing.
C25_OnlyExecuteChanges ==
  [][/\ \A name \in Breakers :
          cb'[name] # cb[name] =>
            /\ cbEvent'.op \in {"invoke", "success", "failure"}
            /\ cbEvent'.name = name
     /\ cbEvent'.op = "getState" =>
          /\ cb' = cb
          /\ cbEvent'.states = [name \in Breakers |-> cb[name].state]]_vars

\* GET /health reported redis Open and postgres Closed, and both breakers
\* are as reported
C25_Witness ==
  /\ cbEvent.op = "getState"
  /\ cbEvent.states["redis"] = "OPEN"
  /\ cbEvent.states["postgres"] = "CLOSED"
  /\ cb["redis"].state = "OPEN"
  /\ cb["postgres"].state = "CLOSED"

\* ---- C26 ------------------------------------------------------------------
\* C26: in every reachable state, with calls in flight or not, successCount
\* is at least 0 and below successThreshold, and it is 0 unless the breaker
\* is HalfOpen.
C26_HalfOpenCounter ==
  \A name \in Breakers :
    /\ cb[name].successCount >= 0
    /\ cb[name].successCount < successThreshold(name)
    /\ cb[name].successCount # 0 => cb[name].state = "HALF_OPEN"

\* a failed probe opened redis, which had two successes in HalfOpen, while
\* another call was in flight
C26_Witness ==
  /\ cbEvent.op = "failure"
  /\ cbEvent.name = "redis"
  /\ cbEvent.was.state = "HALF_OPEN"
  /\ cbEvent.was.successCount = 2
  /\ cb["redis"].state = "OPEN"
  /\ cb["redis"].successCount = 0
  /\ InFlightOn("redis") > 0

\* ---- C27 ------------------------------------------------------------------
\* C27: in every reachable state in which a breaker is Closed, its failures
\* is below its threshold, also right after HalfOpen to Closed and with
\* calls in flight.
C27_ClosedBelowThreshold ==
  \A name \in Breakers :
    cb[name].state = "CLOSED" => cb[name].failures < threshold(name)

\* postgres, which had failed before, went from HalfOpen to Closed with
\* failures = 0 while another call was in flight
C27_Witness ==
  /\ cbEvent.op = "success"
  /\ cbEvent.name = "postgres"
  /\ cbEvent.was.state = "HALF_OPEN"
  /\ cb["postgres"].state = "CLOSED"
  /\ cb["postgres"].failures = 0
  /\ cb["postgres"].lastFailureTime > 0
  /\ InFlightOn("postgres") > 0

\* ---- C28 ------------------------------------------------------------------
\* C28: a job enqueued while a flush cycle awaits its query is put at the
\* end of the pending sequence with a pending promise and joins no batch;
\* a job that is pending in the queue is in no batch and unsettled, and no
\* job is in neither; the continuation of a cycle settles jobs of its own
\* batch only; a job leaves the queue only into the batch of a new cycle;
\* and with the timer ticking every queued job is drained.
C28_EnqueueDuringFlush ==
  /\ [][(lastOp' = "enqueue" /\ flushing) =>
          /\ Len(settled') = Len(settled) + 1
          /\ Len(queue') = Len(queue) + 1
          /\ SubSeq(queue', 1, Len(queue)) = queue
          /\ queue'[Len(queue')].id = Len(settled')
          /\ settled'[Len(settled')] = Pending
          /\ cycles' = cycles
          /\ \A id \in JobIds : settled'[id] = settled[id]]_vars
  /\ [](\A id \in JobIds :
          /\ QueueCount(id) + BatchCount(id) = 1
          /\ QueueCount(id) = 1 => settled[id] = Pending)
  /\ [][\A id \in JobIds :
          /\ settled'[id] # settled[id] =>
               \E c \in 1..Len(cycles) :
                 /\ InBatch(c, id)
                 /\ cycles[c].status = "awaiting"
                 /\ cycles'[c].status # "awaiting"
          /\ (CycleOfJob(id) = 0 /\ CycleOfJob(id)' # 0) =>
               CycleOfJob(id)' = Len(cycles) + 1]_vars
  /\ \A id \in 1..MaxJobs :
       (id \in JobIds /\ CycleOfJob(id) = 0)
         ~> (id \in JobIds /\ CycleOfJob(id) # 0)

\* a job enqueued while a query was pending waits at the end of the queue
\* behind an earlier job, unsettled
C28_Witness ==
  /\ lastOp = "enqueue"
  /\ flushing
  /\ \E q \in 1..Len(queries) : queries[q].status = "pending"
  /\ Len(queue) = 2
  /\ queue[Len(queue)].id = Len(settled)
  /\ settled[Len(settled)] = Pending

\* ---- C29 ------------------------------------------------------------------
\* C29: the outcome of a guarded function that arrives while the breaker is
\* Open (its call was admitted before the breaker opened) leaves the state
\* Open and lastFailureTime as it was, and emits no open notification.
C29_LateOutcomeIgnored ==
  [][\A name \in Breakers :
       ((SuccessOn(name) \/ FailureOn(name)) /\ cb[name].state = "OPEN") =>
         /\ cb'[name].state = "OPEN"
         /\ cb'[name].lastFailureTime = cb[name].lastFailureTime
         /\ cbEvent'.op = "failure" => ~cbEvent'.emits]_vars

\* ---- C30 ------------------------------------------------------------------
\* C30: once a PUT or DELETE has written the row and its cache delete has
\* returned, the cache does not hold the version of the row that the
\* request replaced.
C30_CacheCoherence == cache \notin overwritten

====
